---------------------------- MODULE Spec2Model ----------------------------
(***************************************************************************)
(* Model of the quantum-portal relay service                               *)
(* (pallets/quamtum-portal/src/quantum_portal_service.rs):                 *)
(* the persisted relay lock, the per-chain pending-transaction store and   *)
(* the process_pair / is_tx_pending cycle, run by concurrent offchain      *)
(* workers that share one persistent local storage.                        *)
(***************************************************************************)
EXTENDS Integers, Sequences, FiniteSets, TLC

(***************************************************************************)
(* Bounds of the model.                                                    *)
(***************************************************************************)
\* number of concurrent workers sharing the storage
NumProcs == 2
\* number of distinct transaction ids the chain clients may return
NumTxIds == 2

Procs == 1..NumProcs

(***************************************************************************)
(* u64 values.  A u64 is kept as four 16-bit limbs, most significant       *)
(* first, so that values near 2^64 and the wrap-around of the 64-bit       *)
(* addition are representable.                                             *)
(***************************************************************************)
LimbBase == 65536

U64(n) == <<0, 0, n \div LimbBase, n % LimbBase>>

MaxU64 == <<LimbBase - 1, LimbBase - 1, LimbBase - 1, LimbBase - 1>>

\* timestamp + TIMEOUT on u64: the wrapped sum and whether it overflowed
AddU64(a, b) ==
    LET s4 == a[4] + b[4]
        s3 == a[3] + b[3] + (s4 \div LimbBase)
        s2 == a[2] + b[2] + (s3 \div LimbBase)
        s1 == a[1] + b[1] + (s2 \div LimbBase)
    IN  [val |-> <<s1 % LimbBase, s2 % LimbBase, s3 % LimbBase, s4 % LimbBase>>,
         overflow |-> s1 >= LimbBase]

\* a < b on u64
LtU64(a, b) ==
    \E i \in 1..4 : a[i] < b[i] /\ \A j \in 1..(i - 1) : a[j] = b[j]

\* u64::to_be_bytes
to_be_bytes(v) ==
    <<v[1] \div 256, v[1] % 256, v[2] \div 256, v[2] % 256,
      v[3] \div 256, v[3] % 256, v[4] \div 256, v[4] % 256>>

\* variant of EncodeU64 that writes the most significant byte first
EncodeU64_be(v) == to_be_bytes(v)

\* the SCALE encoding of a u64: its eight bytes, least significant first
EncodeU64(v) ==
    <<v[4] % 256, v[4] \div 256, v[3] % 256, v[3] \div 256,
      v[2] % 256, v[2] \div 256, v[1] % 256, v[1] \div 256>>

DecodeU64(b) ==
    <<b[7] + 256 * b[8], b[5] + 256 * b[6], b[3] + 256 * b[4], b[1] + 256 * b[2]>>

(***************************************************************************)
(* H256 transaction ids: 32 bytes.                                         *)
(***************************************************************************)
H256Len == 32

H256Fill(b) == [i \in 1..H256Len |-> b]

H256Zero == H256Fill(0)

TxIds == {H256Fill(i) : i \in 1..NumTxIds}

(***************************************************************************)
(* Program constants.                                                      *)
(***************************************************************************)
TIMEOUT == U64(3600 * 1000)

\* the chain id under which the lock record is stored
SentinelId == 9999

Sentinel == U64(SentinelId)

(***************************************************************************)
(* PendingTransaction and its persisted (SCALE) encoding.                  *)
(***************************************************************************)
MineTransaction(c, r, t, x) ==
    [tag |-> "MineTransaction", chain |-> c, remote |-> r, timestamp |-> t, tx_id |-> x]

FinalizeTransaction(c, t, x) ==
    [tag |-> "FinalizeTransaction", chain |-> c, timestamp |-> t, tx_id |-> x]

None == [tag |-> "None"]

Undecodable == [tag |-> "Undecodable"]

\* derive(Encode): the variant index, then the fields in order
Encode(tx) ==
    CASE tx.tag = "MineTransaction" ->
           <<0>> \o EncodeU64(tx.chain) \o EncodeU64(tx.remote)
                 \o EncodeU64(tx.timestamp) \o tx.tx_id
      [] tx.tag = "FinalizeTransaction" ->
           <<1>> \o EncodeU64(tx.chain) \o EncodeU64(tx.timestamp) \o tx.tx_id
      [] tx.tag = "None" -> <<2>>

\* derive(Decode): reads the variant index and the fields; input left over
\* after the last field is ignored
Decode(b) ==
    IF Len(b) = 0 THEN Undecodable
    ELSE CASE b[1] = 0 /\ Len(b) >= 25 + H256Len ->
                MineTransaction(DecodeU64(SubSeq(b, 2, 9)), DecodeU64(SubSeq(b, 10, 17)),
                                DecodeU64(SubSeq(b, 18, 25)), SubSeq(b, 26, 25 + H256Len))
           [] b[1] = 1 /\ Len(b) >= 17 + H256Len ->
                FinalizeTransaction(DecodeU64(SubSeq(b, 2, 9)), DecodeU64(SubSeq(b, 10, 17)),
                                    SubSeq(b, 18, 17 + H256Len))
           [] b[1] = 2 -> None
           [] OTHER -> Undecodable

(***************************************************************************)
(* Storage keying.                                                         *)
(***************************************************************************)
HexChars == <<"0", "1", "2", "3", "4", "5", "6", "7",
              "8", "9", "a", "b", "c", "d", "e", "f">>

RECURSIVE bytes_to_hex(_)
bytes_to_hex(bs) ==
    IF bs = <<>> THEN ""
    ELSE HexChars[(Head(bs) \div 16) + 1] \o HexChars[(Head(bs) % 16) + 1]
           \o bytes_to_hex(Tail(bs))

\* variant of storage_key that leaves the chain id out of the key
storage_key_prefix_only(key) == "quantum-portal::tx::"

storage_key(key) == "quantum-portal::tx::" \o bytes_to_hex(to_be_bytes(key))

storage_key_for_tx(tx) == tx.chain

(***************************************************************************)
(* The environment: the registered clients, the chain ids the external     *)
(* scheduler may pass, the clock values a client may carry, and the        *)
(* answers of the collaborators (status oracle, finalize, mine).           *)
(***************************************************************************)
\* contract.chain_id of self.clients, in order
ClientChainIds == <<U64(4), U64(9)>>

\* the pairs <<remote_chain, local_chain>> the scheduler passes; chain 7
\* has no client
Pairs == {<<U64(9), U64(4)>>, <<U64(4), U64(9)>>, <<U64(7), U64(4)>>, <<U64(4), U64(7)>>}

\* values of client.now: an early time, that time plus TIMEOUT exactly,
\* one millisecond later, and the largest u64
Times == {U64(1000), AddU64(U64(1000), TIMEOUT).val,
          AddU64(U64(1001), TIMEOUT).val, MaxU64}

\* the inputs of the concurrent specification
ConcPairs == {<<U64(9), U64(4)>>, <<U64(7), U64(4)>>}

ConcTimes == {U64(1000), AddU64(U64(1001), TIMEOUT).val}

\* TransactionStatus, and "Err" for a failed status request
Statuses == {"Confirmed", "Failed", "Pending", "NotFound", "Err"}

\* ChainRequestResult<Option<H256>> of finalize and mine: Err(..),
\* Ok(None) with val = <<>>, Ok(Some(x)) with val = <<x>>
SubmitErr == [ok |-> FALSE, val |-> <<>>]

SubmitOk(opt) == [ok |-> TRUE, val |-> opt]

SubmitResults == {SubmitErr, SubmitOk(<<>>)} \cup {SubmitOk(<<x>>) : x \in TxIds}

\* the build either checks u64 overflow (panic) or wraps
OverflowChecks == BOOLEAN

(***************************************************************************)
(* State.                                                                  *)
(***************************************************************************)
VARIABLES
    store,          \* the persistent local storage: key -> encoded value
    pc,             \* each worker's position in process_pair_with_lock
    remote_chain,   \* arguments of the worker's current invocation
    local_chain,
    now,            \* client.now of the worker's clients
    stored,         \* the Vec read by pending_transactions
    sub_tx,         \* fin_tx / mine_tx: the Option<H256> a submission returned
    rv,             \* the result of process_pair held by process_pair_with_lock
    result,         \* how the worker's invocation ended
    acquired,       \* the invocation wrote the lock record (line 75)
    calls,          \* the collaborator calls and record writes of the invocation
    probe           \* input and output of a function applied on its own

vars == <<store, pc, remote_chain, local_chain, now, stored, sub_tx, rv,
          result, acquired, calls, probe>>

(***************************************************************************)
(* StorageValueRef::persistent(key): get / set / clear.                    *)
(***************************************************************************)
StorageGet(s, key) == IF key \in DOMAIN s THEN <<s[key]>> ELSE <<>>

StorageSet(s, key, bytes) ==
    [k \in DOMAIN s \cup {key} |-> IF k = key THEN bytes ELSE s[k]]

StorageClear(s, key) == [k \in DOMAIN s \ {key} |-> s[k]]

(***************************************************************************)
(* The storage operations of the service.                                  *)
(***************************************************************************)
save_tx(s, tx) == StorageSet(s, storage_key(storage_key_for_tx(tx)), Encode(tx))

\* Vec of the decoded record, empty when the slot is absent; a value that
\* does not decode makes s.get().unwrap() panic: <<Undecodable>>
stored_pending_transactions(s, chain_id) ==
    LET rv0 == StorageGet(s, storage_key(chain_id))
    IN  IF rv0 = <<>> THEN <<>> ELSE <<Decode(rv0[1])>>

remove_transaction_from_db(s, t) ==
    StorageClear(s, storage_key(storage_key_for_tx(t)))

LockRecord == FinalizeTransaction(Sentinel, U64(0), H256Zero)

\* variant of lock_is_open that looks at the slot of chain id 0
lock_is_open_other_slot(s) == stored_pending_transactions(s, U64(0)) = <<>>

lock_is_open(s) == stored_pending_transactions(s, Sentinel) = <<>>

lock(s) == save_tx(s, LockRecord)

\* variant of remove_lock that flips the lock: it stores the lock record when
\* none is stored
remove_lock_toggles(s) ==
    IF lock_is_open(s) THEN lock(s) ELSE remove_transaction_from_db(s, LockRecord)

\* variant of remove_lock that clears nothing
remove_lock_skipped(s) == s

remove_lock(s) == remove_transaction_from_db(s, LockRecord)

\* position of the client with this chain id, 0 when there is none
\* (position(..) is None and unwrap() panics)
find_client_idx(chain_id) ==
    IF \E i \in 1..Len(ClientChainIds) : ClientChainIds[i] = chain_id
    THEN CHOOSE i \in 1..Len(ClientChainIds) : ClientChainIds[i] = chain_id
    ELSE 0

\* (timestamp + TIMEOUT) < client.now
\* variant of TimedOut with the comparison turned around
TimedOut_reversed(timestamp, clientNow) == LtU64(clientNow, AddU64(timestamp, TIMEOUT).val)

TimedOut(timestamp, clientNow) == LtU64(AddU64(timestamp, TIMEOUT).val, clientNow)

\* variant of is_tx_pending that takes a Pending transaction for finished
is_tx_pending_pending_done(s, t, status, clientNow, checks) ==
    IF status = "Pending"
    THEN [out |-> "false", status |-> status, store |-> s]
    ELSE [out |-> IF status = "Err" THEN "Err" ELSE "false", status |-> status,
          store |-> IF status = "Err" THEN s ELSE remove_transaction_from_db(s, t)]

\* variant of is_tx_pending that drops the record of a Pending transaction
is_tx_pending_pending_clears(s, t, status, clientNow, checks) ==
    IF status = "Pending"
    THEN [out |-> "true", status |-> status, store |-> remove_transaction_from_db(s, t)]
    ELSE [out |-> IF status = "Err" THEN "Err" ELSE "false", status |-> status,
          store |-> IF status = "Err" THEN s ELSE remove_transaction_from_db(s, t)]

\* variant of is_tx_pending that keeps waiting for a Failed transaction
is_tx_pending_failed_kept(s, t, status, clientNow, checks) ==
    IF status \in {"Failed", "Pending"}
    THEN [out |-> "true", status |-> status, store |-> s]
    ELSE [out |-> IF status = "Err" THEN "Err" ELSE "false", status |-> status,
          store |-> IF status = "Err" THEN s ELSE remove_transaction_from_db(s, t)]

\* is_tx_pending(t) with the oracle answering status, for a client clock
\* clientNow and a build with or without overflow checks: the value returned
\* (out: "true", "false", "Err", or "panic"), the status the oracle was asked
\* for ("none" when the call panicked before the request) and the storage
\* afterwards
is_tx_pending(s, t, status, clientNow, checks) ==
    IF t.tag \notin {"MineTransaction", "FinalizeTransaction"}
    THEN [out |-> "panic", status |-> "none", store |-> s]
    ELSE IF find_client_idx(t.chain) = 0
    THEN [out |-> "panic", status |-> "none", store |-> s]
    ELSE CASE status = "Err" -> [out |-> "Err", status |-> status, store |-> s]
           [] status = "Confirmed" ->
                [out |-> "false", status |-> status,
                 store |-> remove_transaction_from_db(s, t)]
           [] status = "Failed" ->
                [out |-> "false", status |-> status,
                 store |-> remove_transaction_from_db(s, t)]
           [] status = "Pending" -> [out |-> "true", status |-> status, store |-> s]
           [] status = "NotFound" ->
                IF checks /\ AddU64(t.timestamp, TIMEOUT).overflow
                THEN [out |-> "panic", status |-> status, store |-> s]
                ELSE IF TimedOut(t.timestamp, clientNow)
                THEN [out |-> "false", status |-> status,
                      store |-> remove_transaction_from_db(s, t)]
                ELSE [out |-> "true", status |-> status, store |-> s]

\* the log lines of is_tx_pending, the level and the sentences of the message:
\* the line of every call (line 237) and those of the match arms (241-267)
TraceLine == [level |-> "info", text |-> <<"is_tx_pending">>]

ConfirmedSignal == [level |-> "info", text |-> <<"The transaction is confirmed!">>]

FailedSignal ==
    [level |-> "info", text |-> <<"The transaction is failed!", "Please investigate">>]

TimedOutSignal ==
    [level |-> "error", text |-> <<"The transaction is timed out!", "Please investigate">>]

\* variant of log_signals whose Failed arm logs the line of the Confirmed arm
log_signals_failed_as_confirmed(t, status, clientNow, checks) ==
    CASE status \in {"Confirmed", "Failed"} -> <<TraceLine, ConfirmedSignal>>
      [] status = "NotFound" /\ TimedOut(t.timestamp, clientNow) ->
           <<TraceLine, TimedOutSignal>>
      [] OTHER -> <<TraceLine>>

\* the lines that is_tx_pending(t) logs, in order, when the oracle answers
\* status: none when it panics before line 237
log_signals(t, status, clientNow, checks) ==
    IF t.tag \notin {"MineTransaction", "FinalizeTransaction"}
       \/ find_client_idx(t.chain) = 0
    THEN <<>>
    ELSE <<TraceLine>> \o
         CASE status = "Confirmed" -> <<ConfirmedSignal>>
           [] status = "Failed" -> <<FailedSignal>>
           [] status = "NotFound" ->
                IF checks /\ AddU64(t.timestamp, TIMEOUT).overflow
                THEN <<>>
                ELSE IF TimedOut(t.timestamp, clientNow)
                THEN <<TimedOutSignal>>
                ELSE <<>>
           [] OTHER -> <<>>

(***************************************************************************)
(* Initial state: empty storage, every worker idle.                        *)
(***************************************************************************)
Init ==
    /\ store = <<>>
    /\ pc = [p \in Procs |-> "idle"]
    /\ remote_chain = [p \in Procs |-> U64(0)]
    /\ local_chain = [p \in Procs |-> U64(0)]
    /\ now = [p \in Procs |-> U64(0)]
    /\ stored = [p \in Procs |-> <<>>]
    /\ sub_tx = [p \in Procs |-> <<>>]
    /\ rv = [p \in Procs |-> "Ok"]
    /\ result = [p \in Procs |-> "none"]
    /\ acquired = [p \in Procs |-> FALSE]
    /\ calls = [p \in Procs |-> <<>>]
    /\ probe = <<>>

\* the invocation of worker p ends with res: "Ok", an error, or "panic"
Finish(p, res) ==
    /\ pc' = [pc EXCEPT ![p] = "idle"]
    /\ result' = [result EXCEPT ![p] = res]
    /\ stored' = [stored EXCEPT ![p] = <<>>]
    /\ sub_tx' = [sub_tx EXCEPT ![p] = <<>>]
    /\ rv' = [rv EXCEPT ![p] = "Ok"]

Goto(p, label) == pc' = [pc EXCEPT ![p] = label]

Called(p, op, val) == calls' = [calls EXCEPT ![p] = Append(@, [op |-> op, val |-> val])]

\* is_tx_pending was called for a record of the given variant, answered val
\* and logged the lines log
Classified(p, tag, val, log) ==
    calls' = [calls EXCEPT ![p] =
                Append(@, [op |-> "is_tx_pending", val |-> val, tag |-> tag, log |-> log])]

(***************************************************************************)
(* process_pair_with_lock(remote_chain, local_chain), lines 68-82.         *)
(***************************************************************************)
\* the scheduler invokes process_pair_with_lock on worker p, whose service
\* was built with clients carrying the clock value n
Start(p, pairs, times) ==
    /\ pc[p] = "idle"
    /\ \E pair \in pairs, n \in times :
         /\ remote_chain' = [remote_chain EXCEPT ![p] = pair[1]]
         /\ local_chain' = [local_chain EXCEPT ![p] = pair[2]]
         /\ now' = [now EXCEPT ![p] = n]
    /\ Goto(p, "lock_is_open")
    /\ result' = [result EXCEPT ![p] = "running"]
    /\ acquired' = [acquired EXCEPT ![p] = FALSE]
    /\ calls' = [calls EXCEPT ![p] = <<>>]
    /\ UNCHANGED <<store, stored, sub_tx, rv>>
    /\ UNCHANGED probe

\* line 70: lock_is_open() is true
LockIsOpen(p) ==
    /\ pc[p] = "lock_is_open"
    /\ stored_pending_transactions(store, Sentinel) # <<Undecodable>>
    /\ lock_is_open(store)
    /\ Goto(p, "lock")
    /\ UNCHANGED <<store, remote_chain, local_chain, now, stored, sub_tx, rv,
                   result, acquired, calls>>
    /\ UNCHANGED probe

\* lines 70-74: the lock record is present (or does not decode: unwrap panics)
LockIsClosed(p) ==
    /\ pc[p] = "lock_is_open"
    /\ ~lock_is_open(store)
    /\ Finish(p, IF stored_pending_transactions(store, Sentinel) = <<Undecodable>>
                 THEN "panic" ELSE "Ok")
    /\ UNCHANGED <<store, remote_chain, local_chain, now, acquired, calls>>
    /\ UNCHANGED probe

\* lines 75-77: lock(), then the lock slot is read back for the log
Lock(p) ==
    /\ pc[p] = "lock"
    /\ store' = lock(store)
    /\ acquired' = [acquired EXCEPT ![p] = TRUE]
    /\ IF stored_pending_transactions(store', Sentinel) = <<Undecodable>>
       THEN Finish(p, "panic")
       ELSE /\ Goto(p, "process_pair")
            /\ UNCHANGED <<stored, sub_tx, rv, result>>
    /\ UNCHANGED <<remote_chain, local_chain, now, calls>>
    /\ UNCHANGED probe

\* variant of RemoveLock that swallows the result of process_pair
RemoveLock_swallow(p) ==
    /\ pc[p] = "remove_lock"
    /\ store' = remove_lock(store)
    /\ Finish(p, "Ok")
    /\ UNCHANGED <<remote_chain, local_chain, now, acquired, calls>>
    /\ UNCHANGED probe

\* lines 79-81: remove_lock(), then rv is returned
RemoveLock(p) ==
    /\ pc[p] = "remove_lock"
    /\ store' = remove_lock(store)
    /\ Finish(p, rv[p])
    /\ UNCHANGED <<remote_chain, local_chain, now, acquired, calls>>
    /\ UNCHANGED probe

(***************************************************************************)
(* process_pair(remote_chain, local_chain), lines 119-162, one action per  *)
(* storage access or collaborator call.                                    *)
(***************************************************************************)
\* line 129 -> 188: stored_pending_transactions(local_chain)
LoadPending(p) ==
    /\ pc[p] = "process_pair"
    /\ LET txs == stored_pending_transactions(store, local_chain[p])
       IN  IF txs = <<Undecodable>>
           THEN Finish(p, "panic")
           ELSE /\ stored' = [stored EXCEPT ![p] = txs]
                /\ Goto(p, IF txs = <<>> THEN "finalize" ELSE "is_tx_pending")
                /\ UNCHANGED <<sub_tx, rv, result>>
    /\ UNCHANGED <<store, remote_chain, local_chain, now, acquired, calls>>
    /\ UNCHANGED probe

\* lines 189-191 and 130-134: the filter calls is_tx_pending(t).unwrap() on
\* the record read (an Err from the status request panics in unwrap); a live
\* record ends process_pair with Ok(())
\* variant of ClassifyPending that ends the cycle once the record is cleared
ClassifyPending_ends_cycle(p) ==
    /\ pc[p] = "is_tx_pending"
    /\ \E status \in Statuses, checks \in OverflowChecks :
         LET t == stored[p][1]
             r == is_tx_pending(store, t, status, now[p], checks)
         IN  /\ store' = r.store
             /\ Classified(p, t.tag, [status |-> r.status, out |-> r.out],
                           log_signals(t, status, now[p], checks))
             /\ CASE r.out = "true" ->
                       /\ rv' = [rv EXCEPT ![p] = "Ok"]
                       /\ Goto(p, "remove_lock")
                       /\ UNCHANGED <<stored, sub_tx, result>>
                  [] r.out = "false" ->
                       /\ stored' = [stored EXCEPT ![p] = <<>>]
                       /\ rv' = [rv EXCEPT ![p] = "Ok"]
                       /\ Goto(p, "remove_lock")
                       /\ UNCHANGED <<sub_tx, result>>
                  [] OTHER -> Finish(p, "panic")
    /\ UNCHANGED <<remote_chain, local_chain, now, acquired>>
    /\ UNCHANGED probe

ClassifyPending(p) ==
    /\ pc[p] = "is_tx_pending"
    /\ \E status \in Statuses, checks \in OverflowChecks :
         LET t == stored[p][1]
             r == is_tx_pending(store, t, status, now[p], checks)
         IN  /\ store' = r.store
             /\ Classified(p, t.tag, [status |-> r.status, out |-> r.out],
                           log_signals(t, status, now[p], checks))
             /\ CASE r.out = "true" ->
                       /\ rv' = [rv EXCEPT ![p] = "Ok"]
                       /\ Goto(p, "remove_lock")
                       /\ UNCHANGED <<stored, sub_tx, result>>
                  [] r.out = "false" ->
                       /\ stored' = [stored EXCEPT ![p] = <<>>]
                       /\ Goto(p, "finalize")
                       /\ UNCHANGED <<sub_tx, rv, result>>
                  [] OTHER -> Finish(p, "panic")
    /\ UNCHANGED <<remote_chain, local_chain, now, acquired>>
    /\ UNCHANGED probe

\* lines 135-136: a chain id without a client makes find_client_idx panic
NoClient(p) ==
    /\ pc[p] = "finalize"
    /\ find_client_idx(local_chain[p]) = 0 \/ find_client_idx(remote_chain[p]) = 0
    /\ Finish(p, "panic")
    /\ UNCHANGED <<store, remote_chain, local_chain, now, acquired, calls>>
    /\ UNCHANGED probe

\* lines 141-143: local_client.finalize(remote_chain)?
Finalize(p) ==
    /\ pc[p] = "finalize"
    /\ find_client_idx(local_chain[p]) # 0
    /\ find_client_idx(remote_chain[p]) # 0
    /\ \E fin_tx \in SubmitResults :
         /\ Called(p, "finalize", fin_tx)
         /\ IF ~fin_tx.ok
            THEN /\ rv' = [rv EXCEPT ![p] = "FinalizeError"]
                 /\ Goto(p, "remove_lock")
                 /\ UNCHANGED sub_tx
            ELSE /\ sub_tx' = [sub_tx EXCEPT ![p] = fin_tx.val]
                 /\ Goto(p, IF fin_tx.val # <<>> THEN "save_finalize" ELSE "mine")
                 /\ UNCHANGED rv
    /\ UNCHANGED <<store, remote_chain, local_chain, now, stored, result, acquired>>
    /\ UNCHANGED probe

\* variant of SaveFinalize without the else: mine is attempted as well
SaveFinalize_then_mine(p) ==
    /\ pc[p] = "save_finalize"
    /\ LET tx == FinalizeTransaction(local_chain[p], now[p], sub_tx[p][1])
       IN  /\ store' = save_tx(store, tx)
           /\ Called(p, "save_tx", tx)
    /\ Goto(p, "mine")
    /\ UNCHANGED <<remote_chain, local_chain, now, stored, sub_tx, rv, result, acquired>>
    /\ UNCHANGED probe

\* lines 146-149: save_tx(FinalizeTransaction(local_chain, now, fin_tx))
SaveFinalize(p) ==
    /\ pc[p] = "save_finalize"
    /\ LET tx == FinalizeTransaction(local_chain[p], now[p], sub_tx[p][1])
       IN  /\ store' = save_tx(store, tx)
           /\ Called(p, "save_tx", tx)
    /\ Goto(p, "pp_remove_lock")
    /\ UNCHANGED <<remote_chain, local_chain, now, stored, sub_tx, rv, result, acquired>>
    /\ UNCHANGED probe

\* lines 152-153: local_client.mine(remote_client)?
Mine(p) ==
    /\ pc[p] = "mine"
    /\ \E mine_tx \in SubmitResults :
         /\ Called(p, "mine", mine_tx)
         /\ IF ~mine_tx.ok
            THEN /\ rv' = [rv EXCEPT ![p] = "MineError"]
                 /\ Goto(p, "remove_lock")
                 /\ UNCHANGED sub_tx
            ELSE /\ sub_tx' = [sub_tx EXCEPT ![p] = mine_tx.val]
                 /\ Goto(p, IF mine_tx.val # <<>> THEN "save_mine" ELSE "pp_remove_lock")
                 /\ UNCHANGED rv
    /\ UNCHANGED <<store, remote_chain, local_chain, now, stored, result, acquired>>
    /\ UNCHANGED probe

\* variant of SaveMine with the two chain ids exchanged
SaveMine_swapped(p) ==
    /\ pc[p] = "save_mine"
    /\ LET tx == MineTransaction(remote_chain[p], local_chain[p], now[p], sub_tx[p][1])
       IN  /\ store' = save_tx(store, tx)
           /\ Called(p, "save_tx", tx)
    /\ Goto(p, "pp_remove_lock")
    /\ UNCHANGED <<remote_chain, local_chain, now, stored, sub_tx, rv, result, acquired>>
    /\ UNCHANGED probe

\* lines 154-157: save_tx(MineTransaction(local_chain, remote_chain, now, mine_tx))
SaveMine(p) ==
    /\ pc[p] = "save_mine"
    /\ LET tx == MineTransaction(local_chain[p], remote_chain[p], now[p], sub_tx[p][1])
       IN  /\ store' = save_tx(store, tx)
           /\ Called(p, "save_tx", tx)
    /\ Goto(p, "pp_remove_lock")
    /\ UNCHANGED <<remote_chain, local_chain, now, stored, sub_tx, rv, result, acquired>>
    /\ UNCHANGED probe

\* lines 160-161: remove_lock()? and Ok(())
ProcessPairRemoveLock(p) ==
    /\ pc[p] = "pp_remove_lock"
    /\ store' = remove_lock(store)
    /\ rv' = [rv EXCEPT ![p] = "Ok"]
    /\ Goto(p, "remove_lock")
    /\ UNCHANGED <<remote_chain, local_chain, now, stored, sub_tx, result, acquired, calls>>
    /\ UNCHANGED probe

Step(p, pairs, times) ==
    \/ Start(p, pairs, times)
    \/ LockIsOpen(p)
    \/ LockIsClosed(p)
    \/ Lock(p)
    \/ LoadPending(p)
    \/ ClassifyPending(p)
    \/ NoClient(p)
    \/ Finalize(p)
    \/ SaveFinalize(p)
    \/ Mine(p)
    \/ SaveMine(p)
    \/ ProcessPairRemoveLock(p)
    \/ RemoveLock(p)

\* concurrent workers sharing the storage
Next == \E p \in Procs : Step(p, ConcPairs, ConcTimes)

Spec == Init /\ [][Next]_vars

\* one worker, invoked again and again
NextSeq == Step(1, Pairs, Times)

SpecSeq == Init /\ [][NextSeq]_vars

(***************************************************************************)
(* Vocabulary of the properties.                                           *)
(***************************************************************************)
\* worker p took a step (every step of a worker moves its pc)
Stepped(p) == pc'[p] # pc[p]

\* worker p is between the entry and the exit of process_pair
InProcessPair(p) ==
    pc[p] \in {"process_pair", "is_tx_pending", "finalize", "save_finalize",
               "mine", "save_mine", "pp_remove_lock"}

\* a record is stored under the sentinel id in storage s
LockPresent(s) == storage_key(Sentinel) \in DOMAIN s

\* the call history cs holds a call of op
HasCall(cs, op) == \E i \in 1..Len(cs) : cs[i].op = op

\* the invocation of p ended by returning (not by a panic)
Returned(p) == pc[p] = "idle" /\ result[p] \in {"Ok", "FinalizeError", "MineError"}

\* the invocation of p ended by a panic
Panicked(p) == pc[p] = "idle" /\ result[p] = "panic"

Last(cs) == cs[Len(cs)]

\* the indices of the calls of op in the call history cs
CallsOf(cs, op) == {i \in 1..Len(cs) : cs[i].op = op}

\* the indices of the finalize and mine calls of cs that returned an id
Submitted(cs) ==
    {i \in 1..Len(cs) : cs[i].op \in {"finalize", "mine"} /\ cs[i].val.val # <<>>}

\* the record of cs's classification was found live by is_tx_pending
ClassifiedLive(cs) == \E i \in CallsOf(cs, "is_tx_pending") : cs[i].val.out = "true"

\* the oracle answered status and the record was classified live:
\* Pending, or NotFound not yet timed out
LiveAnswer(v) ==
    v.status = "Pending" \/ (v.status = "NotFound" /\ v.out = "true")

\* the invocation got past the classification to the lookup of the clients
ReachedClients(cs) == \A i \in CallsOf(cs, "is_tx_pending") : cs[i].val.out = "false"

\* the record stored under chain_id in s, as the service reads it
Slot(s, chain_id) == stored_pending_transactions(s, chain_id)

(***************************************************************************)
(* C1.  Mutual exclusion: at most one invocation of process_pair_with_lock *)
(* is inside process_pair at any time.                                     *)
(***************************************************************************)
C1_MutualExclusion ==
    \A p \in Procs, q \in Procs : p # q => ~(InProcessPair(p) /\ InProcessPair(q))

(***************************************************************************)
(* C2.  Benign skip: an invocation that reads the lock state while a       *)
(* record is stored under the sentinel id returns Ok(()), has called       *)
(* neither finalize nor mine nor the status oracle, and leaves the whole   *)
(* storage unchanged.                                                      *)
(***************************************************************************)
C2_BenignSkip ==
    [][\A p \in Procs :
         (pc[p] = "lock_is_open" /\ LockPresent(store) /\ Stepped(p)) =>
            /\ pc'[p] = "idle"
            /\ result'[p] = "Ok"
            /\ calls'[p] = <<>>
            /\ store' = store]_vars

\* a worker has skipped: it returned Ok without acquiring, the lock held
C2_Witness ==
    \E p \in Procs :
        /\ Returned(p) /\ result[p] = "Ok" /\ ~acquired[p]
        /\ calls[p] = <<>>
        /\ LockPresent(store)

(***************************************************************************)
(* C3.  Release postcondition: when an invocation that acquired the lock   *)
(* returns, with Ok or with an error, no record is stored under the        *)
(* sentinel id.                                                            *)
(***************************************************************************)
C3_ReleasePostcondition ==
    [][\A p \in Procs :
         (acquired[p] /\ pc[p] # "idle" /\ pc'[p] = "idle"
            /\ result'[p] \in {"Ok", "FinalizeError", "MineError"}) =>
            ~LockPresent(store')]_vars

\* an invocation that acquired the lock has returned an error and the lock
\* is absent
C3_Witness ==
    \E p \in Procs :
        /\ Returned(p) /\ acquired[p] /\ result[p] = "MineError"
        /\ ~LockPresent(store)

(***************************************************************************)
(* C4.  No double submission: in a cycle in which the record stored for    *)
(* local_chain is classified as still live (Pending, or NotFound not yet   *)
(* timed out) process_pair calls neither finalize nor mine, returns        *)
(* Ok(()), and the stored record is unchanged.                             *)
(***************************************************************************)
C4_NoDoubleSubmission ==
    [][\A p \in Procs :
         /\ (pc[p] = "is_tx_pending" /\ Stepped(p) /\ LiveAnswer(Last(calls'[p]).val)) =>
               /\ pc'[p] = "remove_lock"
               /\ rv'[p] = "Ok"
               /\ store' = store
               /\ ~HasCall(calls'[p], "finalize") /\ ~HasCall(calls'[p], "mine")
         /\ (pc[p] = "remove_lock" /\ Stepped(p) /\ ClassifiedLive(calls[p])) =>
               /\ pc'[p] = "idle"
               /\ result'[p] = "Ok"
               /\ ~HasCall(calls'[p], "finalize") /\ ~HasCall(calls'[p], "mine")
               /\ Slot(store', local_chain[p]) = Slot(store, local_chain[p])]_vars

\* a cycle has returned Ok over a live record, which is still stored
C4_Witness ==
    \E p \in Procs :
        /\ Returned(p) /\ result[p] = "Ok" /\ ClassifiedLive(calls[p])
        /\ Slot(store, local_chain[p]) # <<>>
        /\ calls[p][1].val.status = "NotFound"

(***************************************************************************)
(* C5.  Inner error propagation: when finalize or mine fails,              *)
(* process_pair_with_lock returns that error (never Ok), after the lock    *)
(* has been cleared, and no record has been persisted in that cycle.       *)
(***************************************************************************)
C5_InnerErrorPropagation ==
    [][\A p \in Procs :
         /\ (pc[p] \in {"finalize", "mine"} /\ Stepped(p) /\ calls'[p] # calls[p]
               /\ ~Last(calls'[p]).val.ok) =>
               /\ pc'[p] = "remove_lock"
               /\ rv'[p] = (IF pc[p] = "finalize" THEN "FinalizeError" ELSE "MineError")
               /\ store' = store
         /\ (pc[p] = "remove_lock" /\ Stepped(p) /\ rv[p] # "Ok") =>
               /\ pc'[p] = "idle"
               /\ result'[p] = rv[p]
               /\ result'[p] # "Ok"
               /\ ~LockPresent(store')
               /\ ~HasCall(calls'[p], "save_tx")
               /\ Slot(store', local_chain[p]) = Slot(store, local_chain[p])]_vars

\* an invocation whose finalize failed has returned the error, lock cleared
C5_Witness ==
    \E p \in Procs :
        /\ Returned(p) /\ result[p] = "FinalizeError"
        /\ ~Last(calls[p]).val.ok
        /\ ~LockPresent(store)

(***************************************************************************)
(* C6.  Unknown chain id: when remote_chain or local_chain has no          *)
(* registered client, the cycle ends by returning an error, never by a     *)
(* panic, and the lock is absent afterwards.                               *)
(***************************************************************************)
C6_UnknownChainReturned ==
    \A p \in Procs :
        (/\ pc[p] = "idle" /\ acquired[p] /\ ReachedClients(calls[p])
         /\ (find_client_idx(local_chain[p]) = 0 \/ find_client_idx(remote_chain[p]) = 0)) =>
            /\ ~Panicked(p)
            /\ result[p] # "Ok"
            /\ ~LockPresent(store)

(***************************************************************************)
(* C7.  Oracle error during classification: when the status request for    *)
(* the stored record fails, the invocation returns that error with the     *)
(* lock cleared and without calling finalize or mine.                      *)
(***************************************************************************)
C7_OracleErrorReturned ==
    \A p \in Procs :
        (/\ pc[p] = "idle" /\ acquired[p]
         /\ \E i \in CallsOf(calls[p], "is_tx_pending") : calls[p][i].val.status = "Err") =>
            /\ ~Panicked(p)
            /\ result[p] # "Ok"
            /\ ~LockPresent(store)
            /\ ~HasCall(calls[p], "finalize") /\ ~HasCall(calls[p], "mine")

(***************************************************************************)
(* C8.  Finalize before mine: mine is called only after finalize was       *)
(* called and returned Ok(None); when finalize returned an id mine is not  *)
(* called; at most one operation is submitted and at most one record is    *)
(* persisted per cycle.                                                    *)
(***************************************************************************)
C8_FinalizeBeforeMine ==
    \A p \in Procs :
        LET cs == calls[p]
        IN  /\ \A i \in CallsOf(cs, "mine") :
                  \E j \in CallsOf(cs, "finalize") : j < i /\ cs[j].val = SubmitOk(<<>>)
            /\ (\E j \in CallsOf(cs, "finalize") : cs[j].val.val # <<>>) =>
                  CallsOf(cs, "mine") = {}
            /\ Cardinality(Submitted(cs)) <= 1
            /\ Cardinality(CallsOf(cs, "save_tx")) <= 1

\* a cycle has called mine (after finalize) and persisted its record
C8_Witness ==
    \E p \in Procs :
        /\ Returned(p)
        /\ CallsOf(calls[p], "mine") # {}
        /\ CallsOf(calls[p], "save_tx") # {}

(***************************************************************************)
(* C9.  Persisted record content: after a cycle in which finalize returned *)
(* X the slot of local_chain holds Finalize(local_chain, now, X); when     *)
(* finalize returned None and mine returned Y it holds                     *)
(* Mine(local_chain, remote_chain, now, Y); when both returned None the    *)
(* slot is empty.                                                          *)
(***************************************************************************)
C9_PersistedRecord ==
    \A p \in Procs :
        (Returned(p) /\ result[p] = "Ok") =>
            LET cs == calls[p]
                slot == Slot(store, local_chain[p])
            IN  /\ \A i \in CallsOf(cs, "finalize") : cs[i].val.val # <<>> =>
                      slot = <<FinalizeTransaction(local_chain[p], now[p], cs[i].val.val[1])>>
                /\ \A i \in CallsOf(cs, "mine") : cs[i].val.val # <<>> =>
                      slot = <<MineTransaction(local_chain[p], remote_chain[p], now[p],
                                               cs[i].val.val[1])>>
                /\ (CallsOf(cs, "mine") # {} /\ Submitted(cs) = {}) => slot = <<>>

\* a cycle in which finalize returned None and mine an id has returned
C9_Witness ==
    \E p \in Procs :
        /\ Returned(p) /\ result[p] = "Ok"
        /\ \E i \in CallsOf(calls[p], "mine") :
              /\ calls[p][i].val.val # <<>>
              /\ Slot(store, local_chain[p]) =
                   <<MineTransaction(local_chain[p], remote_chain[p], now[p],
                                     calls[p][i].val.val[1])>>

(***************************************************************************)
(* C10.  Terminal statuses: when the oracle reports Confirmed or Failed    *)
(* for the record's transaction id, is_tx_pending returns false and        *)
(* afterwards no record is stored under the record's chain id.             *)
(***************************************************************************)
C10_TerminalStatuses ==
    [][\A p \in Procs :
         (pc[p] = "is_tx_pending" /\ Stepped(p)
            /\ Last(calls'[p]).val.status \in {"Confirmed", "Failed"}) =>
            /\ Last(calls'[p]).val.out = "false"
            /\ Slot(store', stored[p][1].chain) = <<>>
            /\ pc'[p] = "finalize"]_vars

\* a Failed record has been classified and its slot is empty
C10_Witness ==
    \E p \in Procs :
        /\ pc[p] = "finalize"
        /\ calls[p] # <<>>
        /\ Last(calls[p]).val = [status |-> "Failed", out |-> "false"]
        /\ Slot(store, local_chain[p]) = <<>>

(***************************************************************************)
(* The classifier on its own: a record is stored for a chain that has a    *)
(* client, and is_tx_pending is called for it cycle after cycle, as        *)
(* process_pair does at lines 129 and 187-192, with the oracle answering   *)
(* anything, for as long as the record stays stored.                       *)
(***************************************************************************)
\* the number of successive classifications followed
MaxAnswers == 3

RegisteredIds == {ClientChainIds[i] : i \in 1..Len(ClientChainIds)}

\* the records save_tx can have stored for a chain that has a client
ClassifierRecords ==
    {FinalizeTransaction(c, t, x) : c \in RegisteredIds, t \in Times, x \in TxIds}
    \cup {MineTransaction(c, r, t, x) :
             c \in RegisteredIds, r \in RegisteredIds, t \in Times, x \in TxIds}

InitClassifier ==
    /\ \E t \in ClassifierRecords, n \in Times :
         /\ store = save_tx(<<>>, t)
         /\ now = [p \in Procs |-> n]
         /\ probe = [t |-> t, answers |-> <<>>]
    /\ pc = [p \in Procs |-> "idle"]
    /\ remote_chain = [p \in Procs |-> U64(0)]
    /\ local_chain = [p \in Procs |-> U64(0)]
    /\ stored = [p \in Procs |-> <<>>]
    /\ sub_tx = [p \in Procs |-> <<>>]
    /\ rv = [p \in Procs |-> "Ok"]
    /\ result = [p \in Procs |-> "none"]
    /\ acquired = [p \in Procs |-> FALSE]
    /\ calls = [p \in Procs |-> <<>>]

\* one more cycle finds the record stored and calls is_tx_pending for it
IsTxPendingCall ==
    /\ Len(probe.answers) < MaxAnswers
    /\ Slot(store, probe.t.chain) = <<probe.t>>
    /\ \E status \in Statuses, checks \in OverflowChecks :
         LET r == is_tx_pending(store, probe.t, status, now[1], checks)
         IN  /\ store' = r.store
             /\ probe' = [probe EXCEPT !.answers =
                             Append(@, [status |-> r.status, out |-> r.out])]
    /\ UNCHANGED <<pc, remote_chain, local_chain, now, stored, sub_tx, rv,
                   result, acquired, calls>>

NextClassifier == IsTxPendingCall

SpecClassifier == InitClassifier /\ [][NextClassifier]_vars

\* the first n answers of the oracle were all Pending
AllPending(a, n) == \A i \in 1..n : a[i].status = "Pending"

(***************************************************************************)
(* C11.  Pending then Confirmed: when the oracle answers Pending k times   *)
(* (k >= 0) and then Confirmed for a stored record, the successive         *)
(* is_tx_pending calls return true k times and then false; the storage is  *)
(* as it was after each Pending call, the record still stored, and the     *)
(* record is absent after the final call.                                  *)
(***************************************************************************)
C11_PendingThenConfirmed ==
    LET a == probe.answers
        k == Len(a)
    IN  /\ AllPending(a, k) =>
              /\ \A i \in 1..k : a[i].out = "true"
              /\ store = save_tx(<<>>, probe.t)
              /\ Slot(store, probe.t.chain) = <<probe.t>>
        /\ (k >= 1 /\ AllPending(a, k - 1) /\ a[k].status = "Confirmed") =>
              /\ \A i \in 1..(k - 1) : a[i].out = "true"
              /\ a[k].out = "false"
              /\ Slot(store, probe.t.chain) = <<>>

\* two Pending answers and then Confirmed have been classified
C11_Witness ==
    /\ probe.answers = <<[status |-> "Pending", out |-> "true"],
                         [status |-> "Pending", out |-> "true"],
                         [status |-> "Confirmed", out |-> "false"]>>
    /\ Slot(store, probe.t.chain) = <<>>

\* timestamp + TIMEOUT < clientNow and clientNow < timestamp + TIMEOUT in
\* unbounded integers: a sum past 2^64 - 1 is above every clock value
PastTimeout(timestamp, clientNow) ==
    /\ ~AddU64(timestamp, TIMEOUT).overflow
    /\ LtU64(AddU64(timestamp, TIMEOUT).val, clientNow)

BeforeTimeout(timestamp, clientNow) ==
    \/ AddU64(timestamp, TIMEOUT).overflow
    \/ LtU64(clientNow, AddU64(timestamp, TIMEOUT).val)

(***************************************************************************)
(* C12.  NotFound and the timeout: when the oracle reports NotFound for a  *)
(* record with timestamp ts and the client's clock is now, then if         *)
(* now - ts > TIMEOUT is_tx_pending returns false and the record's slot is *)
(* cleared, and if now - ts < TIMEOUT it returns true and the storage is   *)
(* untouched.                                                              *)
(***************************************************************************)
C12_NotFoundTimeout ==
    [][\A p \in Procs :
         (pc[p] = "is_tx_pending" /\ Stepped(p)
            /\ Last(calls'[p]).val.status = "NotFound") =>
            LET t == stored[p][1]
            IN  /\ PastTimeout(t.timestamp, now[p]) =>
                      /\ Last(calls'[p]).val.out = "false"
                      /\ Slot(store', t.chain) = <<>>
                /\ BeforeTimeout(t.timestamp, now[p]) =>
                      /\ Last(calls'[p]).val.out = "true"
                      /\ store' = store]_vars

(***************************************************************************)
(* C13.  Bounded tolerance: a stored record whose operation has stayed     *)
(* unconfirmed for longer than TIMEOUT (timestamp + TIMEOUT < client       *)
(* clock) is cleared by the next cycle that classifies it, so that the     *)
(* chain's slot is freed.                                                  *)
(***************************************************************************)
C13_BoundedTolerance ==
    [][\A p \in Procs :
         (pc[p] = "is_tx_pending" /\ Stepped(p)
            /\ Last(calls'[p]).val.out \in {"true", "false"}
            /\ PastTimeout(stored[p][1].timestamp, now[p])) =>
            Slot(store', stored[p][1].chain) = <<>>]_vars

(***************************************************************************)
(* C13, amended.  A stored record with timestamp + TIMEOUT < client clock  *)
(* is cleared by the cycle that classifies it when the oracle answers      *)
(* NotFound (or Confirmed or Failed), and process_pair goes on to          *)
(* finalize; while the oracle answers Pending the record is kept and the   *)
(* chain stays occupied, however old the record is.                        *)
(***************************************************************************)
C13_TimeoutOnNotFound ==
    [][\A p \in Procs :
         (pc[p] = "is_tx_pending" /\ Stepped(p)
            /\ PastTimeout(stored[p][1].timestamp, now[p])) =>
            LET v == Last(calls'[p]).val
            IN  /\ v.status \in {"NotFound", "Confirmed", "Failed"} =>
                      /\ v.out = "false"
                      /\ Slot(store', stored[p][1].chain) = <<>>
                      /\ pc'[p] = "finalize"
                /\ v.status = "Pending" =>
                      /\ v.out = "true"
                      /\ store' = store
                      /\ pc'[p] = "remove_lock"]_vars

\* a record older than TIMEOUT was reported NotFound and its slot is empty
C13_Witness ==
    \E p \in Procs :
        /\ pc[p] = "finalize"
        /\ calls[p] # <<>>
        /\ Last(calls[p]).val = [status |-> "NotFound", out |-> "false"]
        /\ Slot(store, local_chain[p]) = <<>>

\* both chain ids of the invocation of p have a client
ClientsRegistered(p) ==
    find_client_idx(local_chain[p]) # 0 /\ find_client_idx(remote_chain[p]) # 0

(***************************************************************************)
(* C14.  End-to-end eligibility: with clients registered for the local and *)
(* the remote chain, when a later process_pair call finds the record       *)
(* Finalize(local, now, X) that an earlier call persisted and the oracle   *)
(* reports X Confirmed, the record is cleared and the chain is not         *)
(* skipped: the call goes on to attempt finalize, and mine if finalize     *)
(* returns None.                                                           *)
(***************************************************************************)
C14_Eligibility ==
    [][\A p \in Procs :
         /\ (pc[p] = "is_tx_pending" /\ Stepped(p)
                /\ stored[p][1].tag = "FinalizeTransaction"
                /\ Last(calls'[p]).val.status = "Confirmed") =>
                /\ Slot(store', local_chain[p]) = <<>>
                /\ pc'[p] = "finalize"
         /\ (pc[p] = "finalize" /\ Stepped(p) /\ ClientsRegistered(p)) =>
                /\ Last(calls'[p]).op = "finalize"
                /\ Last(calls'[p]).val = SubmitOk(<<>>) => pc'[p] = "mine"
         /\ (pc[p] = "mine" /\ Stepped(p)) => Last(calls'[p]).op = "mine"]_vars

\* a stored Finalize record was reported Confirmed and the same call went
\* on to finalize, which returned None, and to mine
C14_Witness ==
    \E p \in Procs :
        /\ Len(calls[p]) >= 3
        /\ calls[p][1].op = "is_tx_pending"
        /\ calls[p][1].tag = "FinalizeTransaction"
        /\ calls[p][1].val = [status |-> "Confirmed", out |-> "false"]
        /\ calls[p][2] = [op |-> "finalize", val |-> SubmitOk(<<>>)]
        /\ calls[p][3].op = "mine"

\* the workers that hold an id returned by finalize or mine for local chain
\* c and have not yet written its record (lines 143-157)
Submitting(c) ==
    {p \in Procs : pc[p] \in {"save_finalize", "save_mine"} /\ local_chain[p] = c}

\* the number of operations submitted for chain c that no classification has
\* found terminal: the one of the stored record and those whose id a worker
\* is about to store
InFlight(c) == Len(Slot(store, c)) + Cardinality(Submitting(c))

(***************************************************************************)
(* C15.  One operation in flight per chain: in every reachable state,      *)
(* under any interleaving of process_pair_with_lock invocations, each      *)
(* chain id has at most one stored pending record and at most one          *)
(* submitted operation not yet classified terminal.                        *)
(***************************************************************************)
C15_OneInFlight ==
    \A c \in RegisteredIds :
        /\ Len(Slot(store, c)) <= 1
        /\ InFlight(c) <= 1

\* the step of p ends its cycle in a failure: an error of finalize or mine,
\* an error of the oracle, or a chain id without a client
EndsInFailure(p) ==
    /\ Stepped(p) /\ pc'[p] = "idle" /\ acquired[p]
    /\ \/ result'[p] \in {"FinalizeError", "MineError"}
       \/ result'[p] = "panic" /\ pc[p] = "finalize"
       \/ result'[p] = "panic" /\ pc[p] = "is_tx_pending"
            /\ Last(calls'[p]).val.status = "Err"

(***************************************************************************)
(* C16.  Retry after failure: after any cycle that ends in a failure       *)
(* (finalize, mine or oracle error, or unresolved chain id) the lock is    *)
(* absent, so the next process_pair_with_lock invocation acquires the lock *)
(* and runs process_pair: with one invocation after the other, none is     *)
(* skipped.                                                                *)
(***************************************************************************)
C16_RetryAfterFailure ==
    [][\A p \in Procs :
         /\ EndsInFailure(p) => ~LockPresent(store')
         /\ (pc[p] = "lock_is_open" /\ Stepped(p)
                /\ \A q \in Procs \ {p} : pc[q] = "idle") => pc'[p] = "lock"]_vars

(***************************************************************************)
(* The codec on its own: a PendingTransaction value is encoded and decoded *)
(* (derive(Encode, Decode), line 16), or written by save_tx and read back  *)
(* by stored_pending_transactions.                                         *)
(***************************************************************************)
\* a u64 and an H256 whose bytes are all different
MixedU64 == <<258, 772, 1286, 1800>>

MixedH256 == [i \in 1..H256Len |-> i]

CodecChains == {U64(5), MixedU64}

CodecRemotes == {U64(7), MaxU64}

CodecTimes == {U64(1000), MixedU64, MaxU64}

CodecTxIds == TxIds \cup {MixedH256}

CodecValues ==
    {MineTransaction(c, r, t, x) :
        c \in CodecChains, r \in CodecRemotes, t \in CodecTimes, x \in CodecTxIds}
    \cup {FinalizeTransaction(c, t, x) :
             c \in CodecChains, t \in CodecTimes, x \in CodecTxIds}
    \cup {None}

InitCodec ==
    /\ \E v \in CodecValues :
         probe = [v |-> v, stage |-> "value", bytes |-> <<>>,
                  decoded |-> Undecodable, loaded |-> <<>>]
    /\ store = <<>>
    /\ pc = [p \in Procs |-> "idle"]
    /\ remote_chain = [p \in Procs |-> U64(0)]
    /\ local_chain = [p \in Procs |-> U64(0)]
    /\ now = [p \in Procs |-> U64(0)]
    /\ stored = [p \in Procs |-> <<>>]
    /\ sub_tx = [p \in Procs |-> <<>>]
    /\ rv = [p \in Procs |-> "Ok"]
    /\ result = [p \in Procs |-> "none"]
    /\ acquired = [p \in Procs |-> FALSE]
    /\ calls = [p \in Procs |-> <<>>]

CodecFrame ==
    UNCHANGED <<pc, remote_chain, local_chain, now, stored, sub_tx, rv,
                result, acquired, calls>>

CodecEncode ==
    /\ probe.stage = "value"
    /\ probe' = [probe EXCEPT !.stage = "encoded", !.bytes = Encode(probe.v)]
    /\ UNCHANGED store
    /\ CodecFrame

CodecDecode ==
    /\ probe.stage = "encoded"
    /\ probe' = [probe EXCEPT !.stage = "decoded", !.decoded = Decode(probe.bytes)]
    /\ UNCHANGED store
    /\ CodecFrame

\* save_tx of a Mine or Finalize record (it panics on None, line 281)
CodecSave ==
    /\ probe.stage = "value"
    /\ probe.v.tag # "None"
    /\ store' = save_tx(store, probe.v)
    /\ probe' = [probe EXCEPT !.stage = "saved"]
    /\ CodecFrame

CodecLoad ==
    /\ probe.stage = "saved"
    /\ probe' = [probe EXCEPT !.stage = "loaded",
                              !.loaded = stored_pending_transactions(store, probe.v.chain)]
    /\ UNCHANGED store
    /\ CodecFrame

NextCodec == CodecEncode \/ CodecDecode \/ CodecSave \/ CodecLoad

SpecCodec == InitCodec /\ [][NextCodec]_vars

(***************************************************************************)
(* C17.  Round trip: for each variant of PendingTransaction (Mine,         *)
(* Finalize, None) and every field value, decoding the encoding yields the *)
(* identical value; and a Mine or Finalize record written by save_tx is    *)
(* returned unchanged by stored_pending_transactions for its chain id.     *)
(***************************************************************************)
C17_RoundTrip ==
    /\ probe.stage = "decoded" => probe.decoded = probe.v
    /\ probe.stage = "loaded" => probe.loaded = <<probe.v>>

\* a Mine record with all-different field bytes has been saved and read back
C17_Witness ==
    /\ probe.stage = "loaded"
    /\ probe.v = MineTransaction(MixedU64, U64(7), MixedU64, MixedH256)
    /\ probe.loaded = <<probe.v>>

(***************************************************************************)
(* test_tx_storage_and_status(), lines 84-117: three is_tx_pending calls   *)
(* on records the function builds itself for chain 4.                      *)
(***************************************************************************)
\* a - b on u64: the wrapped difference and whether it went below zero
SubU64(a, b) ==
    LET d4 == a[4] - b[4]
        d3 == a[3] - b[3] - (IF d4 < 0 THEN 1 ELSE 0)
        d2 == a[2] - b[2] - (IF d3 < 0 THEN 1 ELSE 0)
        d1 == a[1] - b[1] - (IF d2 < 0 THEN 1 ELSE 0)
    IN  [val |-> <<(d1 + LimbBase) % LimbBase, (d2 + LimbBase) % LimbBase,
                   (d3 + LimbBase) % LimbBase, (d4 + LimbBase) % LimbBase>>,
         underflow |-> d1 < 0]

\* lines 90-91
recent_time(n) == SubU64(n, U64(10000))

old_time(n) == SubU64(recent_time(n).val, U64(30 * 3600 * 1000))

\* the transaction ids of lines 96 and 112
TestTxMissing ==
    <<62, 173, 218, 29, 251, 77, 170, 170, 66, 134, 91, 21, 74, 250, 36, 255,
      117, 23, 225, 224, 93, 178, 14, 43, 66, 0, 0, 0, 0, 0, 0, 0>>

TestTxExisting ==
    <<2, 151, 41, 161, 214, 157, 222, 170, 143, 108, 36, 23, 174, 14, 121, 157,
      87, 132, 161, 47, 4, 103, 87, 133, 67, 45, 100, 65, 197, 229, 184, 129>>

\* the record of the call at position label, for a client clock n
TestRecord(label, n) ==
    CASE label = "test_call_1" ->
           FinalizeTransaction(U64(4), recent_time(n).val, TestTxMissing)
      [] label = "test_call_2" ->
           FinalizeTransaction(U64(4), old_time(n).val, TestTxMissing)
      [] label = "test_call_3" ->
           FinalizeTransaction(U64(4), old_time(n).val, TestTxExisting)

\* the clock values test_tx_storage_and_status is run with
TestClocks == {U64(1000), U64(200000000)}

\* test_tx_storage_and_status is invoked on worker p
TestStart(p, clocks) ==
    /\ pc[p] = "idle"
    /\ \E n \in clocks : now' = [now EXCEPT ![p] = n]
    /\ Goto(p, "test_times")
    /\ result' = [result EXCEPT ![p] = "running"]
    /\ acquired' = [acquired EXCEPT ![p] = FALSE]
    /\ calls' = [calls EXCEPT ![p] = <<>>]
    /\ UNCHANGED <<store, remote_chain, local_chain, stored, sub_tx, rv, probe>>

\* lines 90-91: the subtractions panic below zero with overflow checks on
TestTimes(p) ==
    /\ pc[p] = "test_times"
    /\ \E checks \in OverflowChecks :
         IF checks /\ (recent_time(now[p]).underflow \/ old_time(now[p]).underflow)
         THEN Finish(p, "panic")
         ELSE /\ Goto(p, "test_call_1")
              /\ UNCHANGED <<stored, sub_tx, rv, result>>
    /\ UNCHANGED <<store, remote_chain, local_chain, now, acquired, calls, probe>>

\* lines 92-98, 100-106 and 108-114: is_tx_pending(..)?
TestCall(p) ==
    /\ pc[p] \in {"test_call_1", "test_call_2", "test_call_3"}
    /\ \E status \in Statuses, checks \in OverflowChecks :
         LET t == TestRecord(pc[p], now[p])
             r == is_tx_pending(store, t, status, now[p], checks)
         IN  /\ store' = r.store
             /\ Classified(p, t.tag, [status |-> r.status, out |-> r.out],
                           log_signals(t, status, now[p], checks))
             /\ CASE r.out \in {"true", "false"} /\ pc[p] = "test_call_1" ->
                       Goto(p, "test_call_2") /\ UNCHANGED <<stored, sub_tx, rv, result>>
                  [] r.out \in {"true", "false"} /\ pc[p] = "test_call_2" ->
                       Goto(p, "test_call_3") /\ UNCHANGED <<stored, sub_tx, rv, result>>
                  [] r.out \in {"true", "false"} /\ pc[p] = "test_call_3" ->
                       Finish(p, "Ok")
                  [] r.out = "Err" -> Finish(p, "StatusError")
                  [] OTHER -> Finish(p, "panic")
    /\ UNCHANGED <<remote_chain, local_chain, now, acquired, probe>>

TestStep(p, clocks) == TestStart(p, clocks) \/ TestTimes(p) \/ TestCall(p)

\* one worker, invoked again and again with either entry point
NextOps == Step(1, Pairs, Times) \/ TestStep(1, TestClocks)

SpecOps == Init /\ [][NextOps]_vars

(***************************************************************************)
(* C18.  Record lifecycle: a pending record for a real chain is created    *)
(* only when finalize or mine returned a transaction id, and a stored      *)
(* record is removed only by a classification step in which the oracle     *)
(* status of that stored record's own transaction id is Confirmed, Failed, *)
(* or NotFound past the timeout; no other step removes it.                 *)
(***************************************************************************)
C18_RecordLifecycle ==
    [][\A c \in RegisteredIds :
         /\ (Slot(store, c) = <<>> /\ Slot(store', c) # <<>>) =>
               \E p \in Procs :
                   /\ pc[p] \in {"save_finalize", "save_mine"} /\ Stepped(p)
                   /\ local_chain[p] = c
                   /\ Slot(store', c)[1].tx_id = sub_tx[p][1]
         /\ (Slot(store, c) # <<>> /\ Slot(store', c) # Slot(store, c)) =>
               \E p \in Procs :
                   /\ pc[p] = "is_tx_pending" /\ Stepped(p)
                   /\ stored[p] = Slot(store, c)
                   /\ Slot(store', c) = <<>>
                   /\ LET v == Last(calls'[p]).val
                      IN  \/ v.status \in {"Confirmed", "Failed"}
                          \/ /\ v.status = "NotFound"
                             /\ PastTimeout(stored[p][1].timestamp, now[p])]_vars

\* chain ids whose keys are compared: the configured ones, the sentinel, and
\* ids that differ from them in a single byte or in byte order only
KeyIds ==
    RegisteredIds \cup {Sentinel, U64(0), U64(7), U64(3879), U64(10255), U64(65536 + 9999),
                        <<0, 0, 9999, 0>>, <<9999, 0, 0, 0>>, <<4, 0, 0, 0>>,
                        MixedU64, MaxU64}

\* storages s1 and s2 agree on every slot but the one of key
SameExcept(s1, s2, key) ==
    \A k \in (DOMAIN s1 \cup DOMAIN s2) \ {key} :
        k \in DOMAIN s1 /\ k \in DOMAIN s2 /\ s1[k] = s2[k]

(***************************************************************************)
(* C19.  Sentinel separation: storage_key maps distinct chain ids to       *)
(* distinct keys, so with no configured chain of id 9999, lock and         *)
(* remove_lock change only the sentinel slot and never a real chain's      *)
(* record, and saving or clearing a real chain's record changes neither    *)
(* the sentinel slot nor another chain's slot.                             *)
(***************************************************************************)
C19_SentinelSeparation ==
    [][\A p \in Procs :
         /\ (Stepped(p) /\ pc[p] = "lock") =>
               \A a \in KeyIds, b \in KeyIds : a # b => storage_key(a) # storage_key(b)
         /\ (Stepped(p) /\ pc[p] \in {"lock", "pp_remove_lock", "remove_lock"}) =>
               /\ SameExcept(store, store', storage_key(Sentinel))
               /\ \A c \in RegisteredIds : Slot(store', c) = Slot(store, c)
         /\ (Stepped(p) /\ pc[p] \in {"save_finalize", "save_mine", "is_tx_pending"}) =>
               /\ SameExcept(store, store', storage_key(local_chain[p]))
               /\ Slot(store', Sentinel) = Slot(store, Sentinel)
               /\ \A c \in RegisteredIds \ {local_chain[p]} :
                     Slot(store', c) = Slot(store, c)]_vars

\* the lock has been taken and released around a stored record of chain 4,
\* and a record of chain 9 is written while one of chain 4 and the lock are
\* stored
C19_Witness ==
    /\ pc[1] = "pp_remove_lock"
    /\ local_chain[1] = U64(9)
    /\ LockPresent(store)
    /\ Slot(store, U64(4)) # <<>>
    /\ Slot(store, U64(9)) # <<>>

\* worker p has run the release at the end of process_pair (line 160) and
\* stands before the release of process_pair_with_lock (line 79)
ReleasedOnce(p) ==
    pc[p] = "remove_lock" /\ rv[p] = "Ok" /\ ~ClassifiedLive(calls[p])

(***************************************************************************)
(* C20.  Idempotent release: remove_lock leaves all storage unchanged when *)
(* the lock is already absent, so the release at the end of process_pair   *)
(* followed by the release in process_pair_with_lock yields the same final *)
(* storage as a single release.                                            *)
(***************************************************************************)
C20_IdempotentRelease ==
    /\ ~LockPresent(store) => remove_lock(store) = store
    /\ remove_lock(remove_lock(store)) = remove_lock(store)
    /\ \A p \in Procs : ReleasedOnce(p) => remove_lock(store) = store

\* process_pair and then process_pair_with_lock have both released the
\* lock, and the record written in between is all that is stored
C20_Witness ==
    \E p \in Procs :
        /\ Returned(p) /\ result[p] = "Ok"
        /\ Submitted(calls[p]) # {}
        /\ ~LockPresent(store)
        /\ store = save_tx(<<>>, Last(calls[p]).val)

\* the lines of log that report an outcome: all but the line of every call
IsSignal(line) == line # TraceLine

OutcomeSignals(log) == SelectSeq(log, IsSignal)

\* the line asks the operator to look into the transaction
Flagged(line) == \E i \in 1..Len(line.text) : line.text[i] = "Please investigate"

(***************************************************************************)
(* C21.  Observable terminal signals: every classification step that       *)
(* removes a record logs exactly one line that reports an outcome, and the *)
(* line tells the three outcomes apart: Confirmed, Failed and timed out;   *)
(* the lines of Failed and of timed out ask for investigation, the line of *)
(* Confirmed does not.                                                     *)
(***************************************************************************)
C21_TerminalSignals ==
    [][\A p \in Procs :
         (pc[p] = "is_tx_pending" /\ Stepped(p) /\ store' # store) =>
            LET e == Last(calls'[p])
                sig == OutcomeSignals(e.log)
            IN  /\ Len(sig) = 1
                /\ e.val.status = "Confirmed" =>
                      sig[1] = ConfirmedSignal /\ ~Flagged(sig[1])
                /\ e.val.status = "Failed" =>
                      sig[1] = FailedSignal /\ Flagged(sig[1])
                /\ e.val.status = "NotFound" =>
                      sig[1] = TimedOutSignal /\ Flagged(sig[1])
                /\ ConfirmedSignal # FailedSignal
                /\ ConfirmedSignal # TimedOutSignal
                /\ FailedSignal # TimedOutSignal]_vars

\* a Failed record has been removed and the line of the Failed arm logged
C21_Witness ==
    \E p \in Procs :
        /\ pc[p] = "finalize"
        /\ calls[p] # <<>>
        /\ Last(calls[p]).op = "is_tx_pending"
        /\ Last(calls[p]).val.status = "Failed"
        /\ Last(calls[p]).log = <<TraceLine, FailedSignal>>
        /\ Slot(store, local_chain[p]) = <<>>

(***************************************************************************)
(* process_pair(remote_chain, local_chain) called directly, lines 119-162: *)
(* the function is public and takes no lock.                               *)
(***************************************************************************)
\* process_pair is invoked on worker p without process_pair_with_lock
DirectStart(p, pairs, times) ==
    /\ pc[p] = "idle"
    /\ \E pair \in pairs, n \in times :
         /\ remote_chain' = [remote_chain EXCEPT ![p] = pair[1]]
         /\ local_chain' = [local_chain EXCEPT ![p] = pair[2]]
         /\ now' = [now EXCEPT ![p] = n]
    /\ Goto(p, "process_pair")
    /\ result' = [result EXCEPT ![p] = "running"]
    /\ acquired' = [acquired EXCEPT ![p] = FALSE]
    /\ calls' = [calls EXCEPT ![p] = <<>>]
    /\ UNCHANGED <<store, stored, sub_tx, rv, probe>>

\* the steps of process_pair, whoever called it
ProcessPairStep(p) ==
    \/ LoadPending(p)
    \/ ClassifyPending(p)
    \/ NoClient(p)
    \/ Finalize(p)
    \/ SaveFinalize(p)
    \/ Mine(p)
    \/ SaveMine(p)
    \/ ProcessPairRemoveLock(p)

\* process_pair returns rv to its direct caller: there is no release of
\* line 79 after it
DirectReturn(p) ==
    /\ pc[p] = "remove_lock"
    /\ ~acquired[p]
    /\ Finish(p, rv[p])
    /\ UNCHANGED <<store, remote_chain, local_chain, now, acquired, calls, probe>>

\* the clock value of the direct calls
DirectTimes == {U64(1000)}

\* worker 1 runs process_pair_with_lock, worker 2 calls process_pair directly
NextDirect ==
    \/ Step(1, ConcPairs, ConcTimes)
    \/ DirectStart(2, ConcPairs, DirectTimes)
    \/ ProcessPairStep(2)
    \/ DirectReturn(2)

SpecDirect == Init /\ [][NextDirect]_vars

\* the invocation of p still has a finalize or mine call or a record write
\* of its process_pair ahead
StillWorking(p) ==
    \/ pc[p] \in {"save_finalize", "mine", "save_mine"}
    \/ pc[p] = "finalize" /\ ClientsRegistered(p)

(***************************************************************************)
(* C22.  Lock continuity: from the step in which an invocation of          *)
(* process_pair_with_lock writes the sentinel record until it has finished *)
(* every finalize or mine call and every record write of its process_pair, *)
(* the sentinel record stays present: no earlier step of the invocation,   *)
(* no other invocation and no direct process_pair call removes it.         *)
(***************************************************************************)
C22_LockContinuity ==
    \A p \in Procs : (acquired[p] /\ StillWorking(p)) => LockPresent(store)

(***************************************************************************)
(* C23.  No overwrite: whenever process_pair writes a new Finalize or Mine *)
(* record for local_chain, the slot of local_chain is empty immediately    *)
(* before the write, under any interleaving of process_pair_with_lock      *)
(* invocations: a stored record is never replaced by a newer submission.   *)
(***************************************************************************)
C23_NoOverwrite ==
    [][\A p \in Procs :
         (pc[p] \in {"save_finalize", "save_mine"} /\ Stepped(p)) =>
            Slot(store, local_chain[p]) = <<>>]_vars

(***************************************************************************)
(* The timeout test on its own, lines 257-266: is_tx_pending is called for *)
(* a stored record and the oracle answers NotFound, for timestamps and     *)
(* clock values around the timeout boundary and around 2^64.               *)
(***************************************************************************)
\* the largest timestamp whose sum with TIMEOUT fits in 64 bits
LastFitting == SubU64(MaxU64, TIMEOUT).val

ArithTimestamps ==
    {U64(0), U64(1000), SubU64(LastFitting, U64(1)).val, LastFitting,
     AddU64(LastFitting, U64(1)).val, MaxU64}

ArithClocks ==
    {U64(0), U64(1000), SubU64(TIMEOUT, U64(1)).val, TIMEOUT, AddU64(TIMEOUT, U64(1)).val,
     AddU64(U64(1000), TIMEOUT).val, AddU64(U64(1001), TIMEOUT).val,
     SubU64(MaxU64, U64(1)).val, MaxU64}

InitArith ==
    /\ \E ts \in ArithTimestamps, n \in ArithClocks, x \in TxIds :
         /\ probe = [t |-> FinalizeTransaction(U64(4), ts, x), stage |-> "stored",
                     out |-> "none", wrapped |-> FALSE]
         /\ store = save_tx(<<>>, FinalizeTransaction(U64(4), ts, x))
         /\ now = [p \in Procs |-> n]
    /\ pc = [p \in Procs |-> "idle"]
    /\ remote_chain = [p \in Procs |-> U64(0)]
    /\ local_chain = [p \in Procs |-> U64(0)]
    /\ stored = [p \in Procs |-> <<>>]
    /\ sub_tx = [p \in Procs |-> <<>>]
    /\ rv = [p \in Procs |-> "Ok"]
    /\ result = [p \in Procs |-> "none"]
    /\ acquired = [p \in Procs |-> FALSE]
    /\ calls = [p \in Procs |-> <<>>]

\* is_tx_pending(t) with the oracle answering NotFound, in a build with or
\* without overflow checks
TimeoutTest ==
    /\ probe.stage = "stored"
    /\ \E checks \in OverflowChecks :
         LET r == is_tx_pending(store, probe.t, "NotFound", now[1], checks)
         IN  /\ store' = r.store
             /\ probe' = [probe EXCEPT
                             !.stage = "answered",
                             !.out = r.out,
                             !.wrapped = ~checks /\ AddU64(probe.t.timestamp, TIMEOUT).overflow]
    /\ UNCHANGED <<pc, remote_chain, local_chain, now, stored, sub_tx, rv,
                   result, acquired, calls>>

NextArith == TimeoutTest

SpecArith == InitArith /\ [][NextArith]_vars

(***************************************************************************)
(* C24.  Timeout arithmetic: for every 64-bit timestamp and clock value    *)
(* the NotFound timeout test gives the answer of the unbounded-integer     *)
(* comparison timestamp + 3,600,000 < now; the 64-bit addition neither     *)
(* wraps around nor aborts; and at now = timestamp + 3,600,000 exactly the *)
(* record is kept as live.                                                 *)
(***************************************************************************)
C24_TimeoutArithmetic ==
    probe.stage = "answered" =>
        /\ probe.out \in {"true", "false"}
        /\ ~probe.wrapped
        /\ (probe.out = "false") = PastTimeout(probe.t.timestamp, now[1])
        /\ (~AddU64(probe.t.timestamp, TIMEOUT).overflow
              /\ now[1] = AddU64(probe.t.timestamp, TIMEOUT).val) =>
              /\ probe.out = "true"
              /\ store = save_tx(<<>>, probe.t)

=============================================================================
